---------------------------- MODULE Spec2Model ----------------------------
(***************************************************************************)
(* Model of fetch_all_data.py: the lex.uz listing harvester.               *)
(*                                                                         *)
(*   SpecMerge  merge_documents as a pure function of its two arguments    *)
(*   SpecPag    one call of fetch_with_pagination against a server that    *)
(*              answers every request with any page, or fails it           *)
(*   Spec       scheduled runs of the fetch_and_merge loop over the        *)
(*              corpus files of the (document type, language) pairs        *)
(*   SpecFS     Spec with writes of a corpus file that may raise           *)
(*   SpecPagFree  SpecPag with a budget that never binds and every         *)
(*              request returning                                          *)
(*   SpecUrl    one call of fetch_url                                      *)
(*   SpecParse  parse_html as a pure function of its markup                *)
(*                                                                         *)
(* Text is modelled as sequences of one-character strings where the code   *)
(* edits it (strip, replace); identifiers are strings compared verbatim.   *)
(***************************************************************************)
EXTENDS Integers, Sequences, FiniteSets, TLC

VARIABLES
    \* fetch_with_pagination
    max_pages,      \* the max_pages argument
    pc,             \* "idle" | "start" | "loop" | "done"
    html,           \* the most recent response text, as the loop reads it:
                    \* its next-page markers and hidden inputs
    all_docs,       \* the accumulated batch
    seen_ids,       \* ids of the accumulated batch
    page,           \* number of the page the loop would request next
    post_data,      \* form body of the most recent POST
    requests,       \* HTTP requests sent so far in this call
    attempts,       \* times the most recent request was sent
    delays,         \* time.sleep(1) calls made
    exit,           \* the statement that ended the call
    \* history of the call, read by no action
    page_ids,       \* ids of the records of every page received
    in_order,       \* each page's not-yet-seen records, in fetch order
    repeated,       \* some page repeated an id of an earlier page
    \* fetch_and_merge
    files,          \* the data directory: filepath -> file
    pair,           \* index in the enumeration of the pair processed next
    run,            \* number of the scheduled run in progress
    proc,           \* "running", or "aborted" by an uncaught exception
    metadata,       \* metadata.json: <<doc_type, lang_code>> -> entry
    new_docs, existing, merged, added,   \* locals of the loop body
    \* second merge over the first merge's output
    calls, again,
    \* fetch_url
    retries,        \* the retries argument
    attempt,        \* the loop variable
    url_pc,         \* "idle" | "try" | "sleep" | "done"
    result,         \* the value returned: <<text>>, or <<>> for None
    sends,          \* requests.get calls made
    sleeps,         \* time.sleep(5) calls made
    \* parse_html
    markup,         \* the html argument
    parse_pc,       \* "idle" | "call" | "done"
    parsed          \* the list returned

vars == <<max_pages, pc, html, all_docs, seen_ids, page, post_data, requests,
          attempts, delays, exit, page_ids, in_order, repeated, files, pair, run, proc,
          metadata, new_docs, existing, merged, added,
          calls, again, retries, attempt, url_pc, result, sends, sleeps,
          markup, parse_pc, parsed>>

pagVars == <<max_pages, pc, html, all_docs, seen_ids, page, post_data,
             requests, attempts, delays, exit, page_ids, in_order, repeated>>
runVars == <<files, pair, run, proc, metadata>>
mergeVars == <<new_docs, existing, merged, added>>
againVars == <<calls, again>>
urlVars == <<retries, attempt, url_pc, result, sends, sleeps>>
parseVars == <<markup, parse_pc, parsed>>
pureVars == <<againVars, urlVars, parseVars>>

---------------------------------------------------------------------------
\* Bounds of the model

MaxPageLen == 2     \* anchors matched in one page
MaxBudget == 3      \* largest max_pages argument tried
MaxCorpusLen == 3   \* records of a persisted corpus given to merge_documents
MaxBatchLen == 2    \* records of a batch given to merge_documents
MaxRuns == 2        \* scheduled runs
MaxRetries == 4     \* largest retries argument tried
MaxMatches == 3     \* anchors in a markup given to parse_html alone
NoBudget == 1000    \* a max_pages no call can use up

\* Program constants
MAX_PAGES == 10
DefaultRetries == 3

---------------------------------------------------------------------------
\* Generic helpers

SeqsUpTo(S, n) == UNION {[1..k -> S] : k \in 0..n}

IdsOf(ds) == {ds[i].id : i \in 1..Len(ds)}

IdUnique(ds) == \A i, j \in 1..Len(ds) : ds[i].id = ds[j].id => i = j

IsSuffix(s, t) ==
    /\ Len(s) <= Len(t)
    /\ SubSeq(t, Len(t) - Len(s) + 1, Len(t)) = s

---------------------------------------------------------------------------
\* Text

IsSpace(c) == c = " "

RECURSIVE lstrip(_)
lstrip(s) == IF s # <<>> /\ IsSpace(Head(s)) THEN lstrip(Tail(s)) ELSE s

RECURSIVE rstrip(_)
rstrip(s) ==
    IF s # <<>> /\ IsSpace(s[Len(s)]) THEN rstrip(SubSeq(s, 1, Len(s) - 1)) ELSE s

\* str.strip()
strip(s) == rstrip(lstrip(s))

\* str.replace('$', 'USD ')
RECURSIVE replace_dollar(_)
replace_dollar(s) ==
    IF s = <<>> THEN <<>>
    ELSE (IF Head(s) = "$" THEN <<"U", "S", "D", " ">> ELSE <<Head(s)>>)
         \o replace_dollar(Tail(s))

---------------------------------------------------------------------------
\* Pages.  A page is what the code reads of a response text: the anchors
\* the document pattern matches, in order; which next-page markers occur;
\* the hidden inputs present, as name -> value.

TokenNames == {"__VIEWSTATE", "__VIEWSTATEGENERATOR", "__EVENTVALIDATION"}

NextTarget == "ucFoundActsControl$LinkButton1"
NextClient == "ucFoundActsControl_LinkButton1"

\* matches of the pattern: group(1) = "/" prefix "docs/" id, group(3) = text
Anchors ==
    { [prefix |-> "",    id |-> "10",  text |-> <<"a">>],
      [prefix |-> "ru/", id |-> "10",  text |-> <<" ", "$", "5", " ">>],
      [prefix |-> "",    id |-> "11",  text |-> <<"b">>],
      [prefix |-> "",    id |-> "11",  text |-> <<" ">>],
      [prefix |-> "",    id |-> "-12", text |-> <<"c">>] }

Hidden(v, g, e) ==
    ("__VIEWSTATE" :> v) @@ ("__VIEWSTATEGENERATOR" :> g) @@ ("__EVENTVALIDATION" :> e)

Controls ==
    { [markers |-> {}, hidden |-> <<>>],
      [markers |-> {}, hidden |-> Hidden("v1", "g1", "e1")],
      [markers |-> {NextTarget}, hidden |-> Hidden("v1", "g1", "e1")],
      [markers |-> {NextClient}, hidden |-> Hidden("v2", "g2", "e2")],
      [markers |-> {NextTarget},
       hidden |-> ("__VIEWSTATEGENERATOR" :> "g1") @@ ("__EVENTVALIDATION" :> "e1")],
      [markers |-> {NextTarget}, hidden |-> Hidden("", "g1", "e1")],
      [markers |-> {NextTarget},
       hidden |-> ("__VIEWSTATE" :> "v1") @@ ("__EVENTVALIDATION" :> "e1")],
      [markers |-> {NextTarget},
       hidden |-> ("__VIEWSTATE" :> "v1") @@ ("__VIEWSTATEGENERATOR" :> "g1")] }

Pages ==
    { [anchors |-> a, markers |-> c.markers, hidden |-> c.hidden] :
        a \in SeqsUpTo(Anchors, MaxPageLen), c \in Controls }

\* response.text == ''
EmptyHtml == [anchors |-> <<>>, markers |-> {}, hidden |-> <<>>]

\* what has_next_page and extract_viewstate read of a response text
Form(h) == [markers |-> h.markers, hidden |-> h.hidden]

extract_viewstate(h) ==
    [n \in (DOMAIN h.hidden) \cap TokenNames |-> h.hidden[n]]

\* dict.get(name, default)
Get(d, name, default) == IF name \in DOMAIN d THEN d[name] ELSE default

has_next_page(h) == NextTarget \in h.markers \/ NextClient \in h.markers

---------------------------------------------------------------------------
\* parse_html

MakeDoc(m) ==
    [id    |-> m.id,
     title |-> replace_dollar(strip(m.text)),
     url   |-> <<"https://lex.uz", "/", m.prefix, "docs/", m.id>>]

\* the id noted as seen before the match is tested
RECURSIVE parse_loop_SeenFirst(_, _, _)
parse_loop_SeenFirst(matches, docs, seen) ==
    IF matches = <<>> THEN docs
    ELSE LET m == Head(matches) IN
         IF m.id \in seen \/ strip(m.text) = <<>>
         THEN parse_loop_SeenFirst(Tail(matches), docs, seen \cup {m.id})
         ELSE parse_loop_SeenFirst(Tail(matches), Append(docs, MakeDoc(m)), seen \cup {m.id})

RECURSIVE parse_loop(_, _, _)
parse_loop(matches, docs, seen) ==
    IF matches = <<>> THEN docs
    ELSE LET m == Head(matches) IN
         IF m.id \in seen \/ strip(m.text) = <<>>
         THEN parse_loop(Tail(matches), docs, seen)
         ELSE parse_loop(Tail(matches), Append(docs, MakeDoc(m)), seen \cup {m.id})

parse_html(h) == IF h = EmptyHtml THEN <<>> ELSE parse_loop(h.anchors, <<>>, {})

---------------------------------------------------------------------------
\* merge_documents

merge_test_AlwaysNew(doc, existing_ids) == TRUE

\* line 207
merge_test(doc, existing_ids) == doc.id \notin existing_ids

RECURSIVE merge_loop(_, _, _)
merge_loop(batch, added_docs, existing_ids) ==
    IF batch = <<>> THEN added_docs
    ELSE LET doc == Head(batch) IN
         IF merge_test(doc, existing_ids)
         THEN merge_loop(Tail(batch), Append(added_docs, doc), existing_ids \cup {doc.id})
         ELSE merge_loop(Tail(batch), added_docs, existing_ids)

merge_result_Appended(added_docs, old) == old \o added_docs

merge_result_OnlyNew(added_docs, old) == added_docs

\* line 212: new docs go at the beginning
merge_result(added_docs, old) == added_docs \o old

\* the fetched version of a known record replacing the stored one
merge_documents_Update(old, batch) ==
    [merged |-> batch \o SelectSeq(old, LAMBDA d : d.id \notin IdsOf(batch)),
     added  |-> Cardinality(IdsOf(batch) \ IdsOf(old))]

merge_documents(old, batch) ==
    LET added_docs == merge_loop(batch, <<>>, IdsOf(old))
    IN  [merged |-> merge_result(added_docs, old), added |-> Len(added_docs)]

---------------------------------------------------------------------------
\* fetch_with_pagination

accept_doc_Always(doc, seen) == TRUE

\* lines 95 and 130
accept_doc(doc, seen) == doc.id \notin seen

\* lines 94-97 and 129-133: fold one page's records into the accumulator
RECURSIVE accumulate(_, _, _, _)
accumulate(docs, all, seen, new_count) ==
    IF docs = <<>> THEN [all_docs |-> all, seen_ids |-> seen, new_count |-> new_count]
    ELSE LET doc == Head(docs) IN
         IF accept_doc(doc, seen)
         THEN accumulate(Tail(docs), Append(all, doc), seen \cup {doc.id}, new_count + 1)
         ELSE accumulate(Tail(docs), all, seen, new_count)

loop_cond_NoBudget(h, p, budget) == has_next_page(h)

\* line 103
loop_cond(h, p, budget) == has_next_page(h) /\ p <= budget

\* line 105: a missing value (None) and an empty one are both falsy
viewstate_missing(viewstate) == Get(viewstate, "__VIEWSTATE", "") = ""

stalled_Never(new_count) == FALSE

\* line 137
stalled(new_count) == new_count = 0

on_initial_failure_Retry == "start"

\* line 90: return
on_initial_failure == "done"

NoPost == <<>>

\* lines 109-115
make_post_data(viewstate) ==
    ("__EVENTTARGET" :> "ucFoundActsControl$LinkButton1")
    @@ ("__EVENTARGUMENT" :> "")
    @@ ("__VIEWSTATE" :> Get(viewstate, "__VIEWSTATE", ""))
    @@ ("__VIEWSTATEGENERATOR" :> Get(viewstate, "__VIEWSTATEGENERATOR", ""))
    @@ ("__EVENTVALIDATION" :> Get(viewstate, "__EVENTVALIDATION", ""))

\* history: the records of a received page
Received(docs) ==
    /\ page_ids' = page_ids \cup IdsOf(docs)
    /\ in_order' = in_order \o SelectSeq(docs, LAMBDA d : d.id \notin page_ids)
    /\ repeated' = (repeated \/ IdsOf(docs) \cap page_ids # {})

PagInit(budget) ==
    /\ max_pages = budget
    /\ pc = "start"
    /\ html = Form(EmptyHtml)
    /\ all_docs = <<>>
    /\ seen_ids = {}
    /\ page = 2
    /\ post_data = NoPost
    /\ requests = 0
    /\ attempts = 0
    /\ delays = 0
    /\ exit = "none"
    /\ page_ids = {}
    /\ in_order = <<>>
    /\ repeated = FALSE

\* lines 84-90: the GET raises (connection error, timeout, bad status)
InitialFailed ==
    /\ pc = "start"
    /\ requests' = requests + 1
    /\ attempts' = 1
    /\ pc' = on_initial_failure
    /\ exit' = "initial_failed"
    /\ UNCHANGED <<max_pages, html, all_docs, seen_ids, page, post_data, delays>>
    /\ UNCHANGED <<page_ids, in_order, repeated, runVars, mergeVars, pureVars>>

\* lines 84-102: the GET answers with page h
InitialOk(h) ==
    /\ pc = "start"
    /\ requests' = requests + 1
    /\ attempts' = 1
    /\ html' = Form(h)
    /\ \E docs \in {parse_html(h)} :
         /\ Received(docs)
         /\ \E r \in {accumulate(docs, all_docs, seen_ids, 0)} :
              /\ all_docs' = r.all_docs
              /\ seen_ids' = r.seen_ids
    /\ page' = 2
    /\ pc' = "loop"
    /\ UNCHANGED <<max_pages, post_data, delays, exit, runVars, mergeVars, pureVars>>

\* line 103: the while condition is false
LoopEnd ==
    /\ pc = "loop"
    /\ ~loop_cond(html, page, max_pages)
    /\ pc' = "done"
    /\ exit' = "loop_end"
    /\ UNCHANGED <<max_pages, html, all_docs, seen_ids, page, post_data, requests, attempts, delays>>
    /\ UNCHANGED <<page_ids, in_order, repeated, runVars, mergeVars, pureVars>>

\* lines 104-106
NoViewstate ==
    /\ pc = "loop"
    /\ loop_cond(html, page, max_pages)
    /\ viewstate_missing(extract_viewstate(html))
    /\ pc' = "done"
    /\ exit' = "no_viewstate"
    /\ UNCHANGED <<max_pages, html, all_docs, seen_ids, page, post_data, requests, attempts, delays>>
    /\ UNCHANGED <<page_ids, in_order, repeated, runVars, mergeVars, pureVars>>

\* the failed POST answered as the failed GET is, with an empty batch
PostFailed_DropsBatch ==
    /\ pc = "loop"
    /\ loop_cond(html, page, max_pages)
    /\ ~viewstate_missing(extract_viewstate(html))
    /\ post_data' = make_post_data(extract_viewstate(html))
    /\ delays' = delays + 1
    /\ requests' = requests + 1
    /\ attempts' = 1
    /\ pc' = "done"
    /\ exit' = "post_failed"
    /\ all_docs' = <<>>
    /\ UNCHANGED <<max_pages, html, seen_ids, page>>
    /\ UNCHANGED <<page_ids, in_order, repeated, runVars, mergeVars, pureVars>>

\* lines 104-125: the POST raises
PostFailed ==
    /\ pc = "loop"
    /\ loop_cond(html, page, max_pages)
    /\ ~viewstate_missing(extract_viewstate(html))
    /\ post_data' = make_post_data(extract_viewstate(html))
    /\ delays' = delays + 1
    /\ requests' = requests + 1
    /\ attempts' = 1
    /\ pc' = "done"
    /\ exit' = "post_failed"
    /\ UNCHANGED <<max_pages, html, all_docs, seen_ids, page>>
    /\ UNCHANGED <<page_ids, in_order, repeated, runVars, mergeVars, pureVars>>

\* lines 104-140: the POST answers with page h
PostOk(h) ==
    /\ pc = "loop"
    /\ loop_cond(html, page, max_pages)
    /\ ~viewstate_missing(extract_viewstate(html))
    /\ post_data' = make_post_data(extract_viewstate(html))
    /\ delays' = delays + 1
    /\ requests' = requests + 1
    /\ attempts' = 1
    /\ html' = Form(h)
    /\ \E docs \in {parse_html(h)} :
         /\ Received(docs)
         /\ \E r \in {accumulate(docs, all_docs, seen_ids, 0)} :
              /\ all_docs' = r.all_docs
              /\ seen_ids' = r.seen_ids
              /\ IF stalled(r.new_count)
                 THEN pc' = "done" /\ exit' = "stall" /\ page' = page
                 ELSE pc' = "loop" /\ exit' = exit /\ page' = page + 1
    /\ UNCHANGED <<max_pages, runVars, mergeVars, pureVars>>

---------------------------------------------------------------------------
\* Files and the fetch_and_merge loop

DATA_DIR == "data"

LANG_SUFFIXES == ("uz-Cyrl" :> "uz_Cyrl") @@ ("uz" :> "uz") @@ ("ru" :> "ru") @@ ("en" :> "en")

\* the pairs modelled, in the order main reaches them
PairOrder == << [doc_type |-> "codes", lang |-> "uz-Cyrl"],
                [doc_type |-> "news",  lang |-> "uz"] >>

\* lines 230-231 and 266-267
filepath(p) == <<DATA_DIR, "/", p.doc_type, "_", LANG_SUFFIXES[p.lang], ".json">>

FilePaths == {filepath(PairOrder[i]) : i \in 1..Len(PairOrder)}

NoFile == [status |-> "missing", data |-> <<>>]
CorruptFile == [status |-> "corrupt", data |-> <<>>]

\* a file cut short while it was written: json.load raises on it, though
\* the records ds are still legible in it
Torn(ds) == [status |-> "corrupt", data |-> ds]
TornFile == Torn(<<MakeDoc([prefix |-> "", id |-> "10", text |-> <<"a">>])>>)

load_existing_data_IgnoresError(fp) == files[fp].data

load_existing_data(fp) ==
    IF files[fp].status = "missing" THEN <<>>
    ELSE IF files[fp].status = "corrupt" THEN <<>>
    ELSE files[fp].data

save_json(data, fp) == files' = [files EXCEPT ![fp] = [status |-> "ok", data |-> data]]

\* the spelling of the names the file names are built from and parsed into
Spell ==
    ("codes" :> <<"c", "o", "d", "e", "s">>) @@
    ("news" :> <<"n", "e", "w", "s">>) @@
    ("uz" :> <<"u", "z">>) @@
    ("uz_Cyrl" :> <<"u", "z", "_", "C", "y", "r", "l">>) @@
    ("uz-Cyrl" :> <<"u", "z", "-", "C", "y", "r", "l">>) @@
    ("_" :> <<"_">>) @@
    (".json" :> <<".", "j", "s", "o", "n">>)

\* the last component of a filepath, as os.listdir returns it
filename(fp) == Spell[fp[3]] \o Spell[fp[4]] \o Spell[fp[5]] \o Spell[fp[6]]

\* line 299
listdir == {fp \in FilePaths : files[fp].status # "missing"}

endswith(s, suffix) ==
    /\ Len(s) >= Len(suffix)
    /\ SubSeq(s, Len(s) - Len(suffix) + 1, Len(s)) = suffix

\* str.replace(old, new), old not empty
RECURSIVE replace(_, _, _)
replace(s, old, new) ==
    IF s = <<>> THEN <<>>
    ELSE IF Len(s) >= Len(old) /\ SubSeq(s, 1, Len(old)) = old
         THEN new \o replace(SubSeq(s, Len(old) + 1, Len(s)), old, new)
         ELSE <<Head(s)>> \o replace(Tail(s), old, new)

\* str.rsplit(sep, 1), sep one character
rsplit(s, sep) ==
    LET at == {i \in 1..Len(s) : s[i] = sep}
    IN  IF at = {} THEN <<s>>
        ELSE LET last == CHOOSE i \in at : \A j \in at : j <= i
             IN  <<SubSeq(s, 1, last - 1), SubSeq(s, last + 1, Len(s))>>

\* line 307
parts_of(name) == rsplit(replace(name, Spell[".json"], <<>>), "_")

\* lines 311-314: the key a file is registered under
metadata_key(name) ==
    LET parts == parts_of(name)
    IN  <<parts[1], replace(parts[2], <<"_">>, <<"-">>)>>

\* lines 294-322: the registry computed from the data directory
update_metadata ==
    LET listed == {fp \in listdir : /\ endswith(filename(fp), Spell[".json"])
                                    /\ Len(parts_of(filename(fp))) = 2}
        keys == {metadata_key(filename(fp)) : fp \in listed}
    IN  [k \in keys |->
            LET fp == CHOOSE f \in listed : metadata_key(filename(f)) = k
            IN  [file |-> fp, count |-> Len(load_existing_data(fp))]]

\* records parse_html can produce
Docs == {MakeDoc(m) : m \in {a \in Anchors : strip(a.text) # <<>>}}

\* ids of the listings the runs are tried on
RunIds == {"10", "11"}

\* what fetch_with_pagination can return to the loop
Batches ==
    {b \in SeqsUpTo({d \in Docs : d.id \in RunIds}, Cardinality(RunIds)) : IdUnique(b)}

PagIdle ==
    /\ max_pages = MAX_PAGES
    /\ pc = "idle"
    /\ html = Form(EmptyHtml)
    /\ all_docs = <<>>
    /\ seen_ids = {}
    /\ page = 2
    /\ post_data = NoPost
    /\ requests = 0
    /\ attempts = 0
    /\ delays = 0
    /\ exit = "none"
    /\ page_ids = {}
    /\ in_order = <<>>
    /\ repeated = FALSE

LocalsInit ==
    /\ new_docs = <<>>
    /\ existing = <<>>
    /\ merged = <<>>
    /\ added = 0

AgainInit ==
    /\ calls = 0
    /\ again = [merged |-> <<>>, added |-> 0]

UrlIdle ==
    /\ retries = DefaultRetries
    /\ attempt = 0
    /\ url_pc = "idle"
    /\ result = <<>>
    /\ sends = 0
    /\ sleeps = 0

ParseIdle ==
    /\ markup = EmptyHtml
    /\ parse_pc = "idle"
    /\ parsed = <<>>

PureIdle == AgainInit /\ UrlIdle /\ ParseIdle

NoMetadata == [k \in {} |-> 0]

RunInit ==
    /\ files \in [FilePaths -> {NoFile, CorruptFile, TornFile}]
    /\ pair = 1
    /\ run = 1
    /\ proc = "running"
    /\ metadata = NoMetadata

RunIdle ==
    /\ files = [fp \in FilePaths |-> NoFile]
    /\ pair = 1
    /\ run = 1
    /\ proc = "running"
    /\ metadata = NoMetadata

should_save_Always(n) == TRUE

\* line 246
should_save(n) == n > 0

\* lines 226-251 (and 262-287): one iteration of the loop over the pairs,
\* the call of fetch_with_pagination returning batch
FetchAndMerge(batch) ==
    /\ proc = "running"
    /\ run <= MaxRuns
    /\ pair <= Len(PairOrder)
    /\ LET fp == filepath(PairOrder[pair])
           m  == merge_documents(load_existing_data(fp), batch)
       IN  /\ new_docs' = batch
           /\ existing' = load_existing_data(fp)
           /\ merged' = m.merged
           /\ added' = m.added
           /\ IF should_save(m.added) THEN save_json(m.merged, fp) ELSE files' = files
    /\ pair' = pair + 1
    /\ UNCHANGED <<run, proc, metadata, pagVars, pureVars>>

\* lines 337-344: the pairs are exhausted and update_metadata runs; the
\* next scheduled run starts
EndRun ==
    /\ proc = "running"
    /\ run <= MaxRuns
    /\ pair > Len(PairOrder)
    /\ metadata' = update_metadata
    /\ run' = run + 1
    /\ pair' = 1
    /\ UNCHANGED <<files, proc, pagVars, mergeVars, pureVars>>

Init == PagIdle /\ RunInit /\ LocalsInit /\ PureIdle

Next ==
    \/ \E b \in Batches : FetchAndMerge(b)
    \/ EndRun

Spec == Init /\ [][Next]_vars

\* lines 215-217 called from line 247: open or json.dump raises.  Nothing
\* between save_json and the top of main catches it, so the process ends.
\* The file is left as it was (open raised) or cut short (dump raised).
SaveFails(batch) ==
    /\ proc = "running"
    /\ run <= MaxRuns
    /\ pair <= Len(PairOrder)
    /\ LET fp == filepath(PairOrder[pair])
           m  == merge_documents(load_existing_data(fp), batch)
       IN  /\ should_save(m.added)
           /\ new_docs' = batch
           /\ existing' = load_existing_data(fp)
           /\ merged' = m.merged
           /\ added' = m.added
           /\ \E f \in {files[fp], Torn(<<>>), Torn(SubSeq(m.merged, 1, 1))} :
                 files' = [files EXCEPT ![fp] = f]
    /\ proc' = "aborted"
    /\ UNCHANGED <<pair, run, metadata, pagVars, pureVars>>

\* the schedule starts the next run after an aborted one
Rescheduled ==
    /\ proc = "aborted"
    /\ run <= MaxRuns
    /\ proc' = "running"
    /\ run' = run + 1
    /\ pair' = 1
    /\ UNCHANGED <<files, metadata, pagVars, mergeVars, pureVars>>

NextFS ==
    \/ \E b \in Batches : FetchAndMerge(b)
    \/ EndRun
    \/ \E b \in Batches : SaveFails(b)
    \/ Rescheduled

SpecFS == Init /\ [][NextFS]_vars

---------------------------------------------------------------------------
\* One call of fetch_with_pagination

InitPag == (\E b \in 1..MaxBudget : PagInit(b)) /\ RunIdle /\ LocalsInit /\ PureIdle

NextPag ==
    \/ InitialFailed
    \/ \E h \in Pages : InitialOk(h)
    \/ LoopEnd
    \/ NoViewstate
    \/ PostFailed
    \/ \E h \in Pages : PostOk(h)

SpecPag == InitPag /\ [][NextPag]_vars

\* the same call with a budget that never binds, every request returning
InitPagFree == PagInit(NoBudget) /\ RunIdle /\ LocalsInit /\ PureIdle

SpecPagFree == InitPagFree /\ [][NextPag]_vars /\ WF_vars(NextPag)

---------------------------------------------------------------------------
\* merge_documents on its own: a first call, then a second call on the
\* first call's corpus with the same batch

MergeDocs == Docs \cup {[id |-> "13", title |-> <<"d">>,
                         url |-> <<"https://lex.uz", "/", "uz/", "docs/", "13">>]}

MergeCorpora == SeqsUpTo(MergeDocs, MaxCorpusLen)

MergeBatches == {b \in SeqsUpTo(MergeDocs, MaxBatchLen) : IdUnique(b)}

InitMerge ==
    /\ PagIdle /\ RunIdle /\ PureIdle
    /\ existing \in MergeCorpora
    /\ new_docs \in MergeBatches
    /\ merged = <<>>
    /\ added = 0

Merge ==
    /\ calls = 0
    /\ LET m == merge_documents(existing, new_docs) IN
         /\ merged' = m.merged
         /\ added' = m.added
    /\ calls' = 1
    /\ UNCHANGED <<existing, new_docs, again, pagVars, runVars, urlVars, parseVars>>

MergeAgain ==
    /\ calls = 1
    /\ again' = merge_documents(merged, new_docs)
    /\ calls' = 2
    /\ UNCHANGED <<mergeVars, pagVars, runVars, urlVars, parseVars>>

NextMerge == Merge \/ MergeAgain

SpecMerge == InitMerge /\ [][NextMerge]_vars

---------------------------------------------------------------------------
\* fetch_url

sleep_between_Always(a, n) == TRUE

\* line 154
sleep_between(a, n) == a < n - 1

InitUrl ==
    /\ PagIdle /\ RunIdle /\ LocalsInit /\ AgainInit /\ ParseIdle
    /\ retries \in 0..MaxRetries
    /\ attempt = 0
    /\ url_pc = "try"
    /\ result = <<>>
    /\ sends = 0
    /\ sleeps = 0

\* lines 147-151: the attempt is answered; its text is returned
AttemptOk(h) ==
    /\ url_pc = "try"
    /\ attempt < retries
    /\ sends' = sends + 1
    /\ result' = <<h>>
    /\ url_pc' = "done"
    /\ UNCHANGED <<retries, attempt, sleeps, pagVars, runVars, mergeVars, againVars, parseVars>>

\* lines 147-154: the attempt raises
AttemptFails ==
    /\ url_pc = "try"
    /\ attempt < retries
    /\ sends' = sends + 1
    /\ IF sleep_between(attempt, retries)
       THEN url_pc' = "sleep" /\ attempt' = attempt
       ELSE url_pc' = "try" /\ attempt' = attempt + 1
    /\ UNCHANGED <<retries, result, sleeps, pagVars, runVars, mergeVars, againVars, parseVars>>

\* line 155
Sleep ==
    /\ url_pc = "sleep"
    /\ sleeps' = sleeps + 1
    /\ attempt' = attempt + 1
    /\ url_pc' = "try"
    /\ UNCHANGED <<retries, result, sends, pagVars, runVars, mergeVars, againVars, parseVars>>

\* line 156: range(retries) is exhausted
ReturnNone ==
    /\ url_pc = "try"
    /\ attempt >= retries
    /\ result' = <<>>
    /\ url_pc' = "done"
    /\ UNCHANGED <<retries, attempt, sends, sleeps, pagVars, runVars, mergeVars, againVars, parseVars>>

NextUrl ==
    \/ \E h \in Pages : AttemptOk(h)
    \/ AttemptFails
    \/ Sleep
    \/ ReturnNone

SpecUrl == InitUrl /\ [][NextUrl]_vars

---------------------------------------------------------------------------
\* parse_html

InitParse ==
    /\ PagIdle /\ RunIdle /\ LocalsInit /\ AgainInit /\ UrlIdle
    /\ markup \in {[anchors |-> a, markers |-> {}, hidden |-> <<>>] :
                      a \in SeqsUpTo(Anchors, MaxMatches)}
    /\ parse_pc = "call"
    /\ parsed = <<>>

\* lines 159-187
Parse ==
    /\ parse_pc = "call"
    /\ parsed' = parse_html(markup)
    /\ parse_pc' = "done"
    /\ UNCHANGED <<markup, pagVars, runVars, mergeVars, againVars, urlVars>>

NextParse == Parse

SpecParse == InitParse /\ [][NextParse]_vars

---------------------------------------------------------------------------
\* Properties

\* the corpus a file holds, as a later run reads it
CorpusOf(f) == IF f.status = "ok" THEN f.data ELSE <<>>

\* C1: merge_documents(persisted, fetched) returns newRecords ++ persisted
\* and |newRecords|, newRecords being the records of fetched whose id is
\* not in persisted, in batch order; persisted is the unchanged tail.
C1_MergePrepends ==
    calls >= 1 =>
        LET newRecords == SelectSeq(new_docs, LAMBDA d : d.id \notin IdsOf(existing))
        IN  /\ merged = newRecords \o existing
            /\ added = Len(newRecords)

\* persisted [a,b,c] and fetched [d,b] gave [d,a,b,c]
C1_Witness ==
    /\ calls = 1
    /\ Len(existing) = 3 /\ IdUnique(existing)
    /\ Len(new_docs) = 2
    /\ new_docs[1].id \notin IdsOf(existing)
    /\ new_docs[2].id = existing[2].id
    /\ merged = <<new_docs[1]>> \o existing
    /\ added = 1

\* C2: merging the same batch into the first merge's corpus adds nothing
\* and returns that corpus unchanged.
C2_MergeIdempotent == calls = 2 => (again.added = 0 /\ again.merged = merged)

C2_Witness == calls = 2 /\ added > 0 /\ Len(existing) > 0 /\ again.added = 0

\* C3: no step of any run removes an entry of a persisted corpus: the corpus
\* a file held before the step is a suffix of the corpus it holds after.
C3_NeverLoses ==
    [][\A fp \in FilePaths : IsSuffix(CorpusOf(files[fp]), CorpusOf(files'[fp]))]_vars

\* a later run added records in front of a corpus an earlier run had stored
C3_Witness ==
    /\ run = 2
    /\ added > 0
    /\ Len(existing) > 0
    /\ \E fp \in FilePaths : CorpusOf(files[fp]) = merged /\ IsSuffix(existing, merged)

\* C4: no two records of a persisted corpus have the same id.
C4_IdUnique == \A fp \in FilePaths : IdUnique(CorpusOf(files[fp]))

\* a batch carrying a stored id and a new one was merged into a stored corpus
C4_Witness ==
    /\ run = 2
    /\ added > 0
    /\ IdsOf(new_docs) \cap IdsOf(existing) # {}
    /\ \E fp \in FilePaths : CorpusOf(files[fp]) = merged /\ Len(merged) = 2

\* C5: the batch holds each id once, as many records as there are distinct
\* ids on the pages received, and is the concatenation in fetch order of
\* each page's not-yet-seen records in the page's own order.
C5_Batch ==
    /\ IdUnique(all_docs)
    /\ Len(all_docs) = Cardinality(page_ids)
    /\ all_docs = in_order

\* three pages answered, a later one repeating an id of an earlier one
C5_Witness ==
    /\ pc = "done"
    /\ requests = 3
    /\ exit = "loop_end"
    /\ repeated
    /\ Len(all_docs) = 3

\* a continuation page was received in this step
PostAnswered == pc = "loop" /\ requests' = requests + 1 /\ exit' # "post_failed"

\* C6: a continuation page that adds no new id ends the call at once, and
\* an ended call sends no request.
C6_StallEnds ==
    /\ [][(PostAnswered /\ all_docs' = all_docs) => pc' = "done"]_vars
    /\ [][pc = "done" => requests' = requests]_vars

\* the stalling page still had the next control, all tokens, and budget left
C6_Witness ==
    /\ exit = "stall"
    /\ pc = "done"
    /\ has_next_page(html)
    /\ TokenNames \subseteq DOMAIN html.hidden
    /\ ~viewstate_missing(extract_viewstate(html))
    /\ page <= max_pages

\* C7: a call never sends more than max_pages requests.
C7_PageBudget == requests <= max_pages

\* the budget ended a call whose last page had new ids and a next control
C7_Witness ==
    /\ pc = "done"
    /\ exit = "loop_end"
    /\ max_pages >= 2
    /\ requests = max_pages
    /\ has_next_page(html)
    /\ ~viewstate_missing(extract_viewstate(html))

\* C8: a POST is sent only after a page that has the next-page marker and
\* all three continuation tokens.
C8_PostNeedsAllTokens ==
    [][(pc = "loop" /\ requests' = requests + 1) =>
         (has_next_page(html) /\ TokenNames \subseteq DOMAIN extract_viewstate(html))]_vars

\* C9: when the initial GET fails the call returns the empty batch having
\* sent that one request.
C9_InitialFailure ==
    exit = "initial_failed" => (pc = "done" /\ all_docs = <<>> /\ requests = 1)

C9_Witness == exit = "initial_failed" /\ pc = "done" /\ requests = 1

\* C10: a request ends the call as a transport failure only after it was
\* attempted DefaultRetries times.
C10_FailsAfterRetries ==
    exit \in {"initial_failed", "post_failed"} => attempts = DefaultRetries

\* C11: fetch_url makes at most `retries` attempts, returns the first
\* answered attempt's text without trying again, sleeps only between two
\* attempts, and returns None once every attempt has failed.
C11_FetchUrl ==
    /\ [](sends <= retries)
    /\ [](sleeps <= sends)
    /\ [](url_pc = "try" /\ sends > 0 /\ sleeps = sends => attempt < retries)
    /\ [](url_pc = "done" /\ result # <<>> => sleeps = sends - 1)
    /\ [](url_pc = "done" /\ result = <<>> =>
             sends = retries /\ sleeps = (IF retries = 0 THEN 0 ELSE retries - 1))
    /\ [][url_pc = "done" => UNCHANGED <<sends, sleeps, result>>]_vars

\* the default three attempts all failed: two sleeps, None returned
C11_Witness ==
    /\ url_pc = "done"
    /\ retries = DefaultRetries
    /\ result = <<>>
    /\ sends = 3
    /\ sleeps = 2

\* C12: a corpus write that fails stops only its own pair: the run goes on
\* to the remaining pairs and to update_metadata.
C12_RunSurvivesWriteFailure == ~(proc = "aborted" /\ pair <= Len(PairOrder))

\* C13: the key update_metadata files a corpus under is the category and
\* the language code its file name was built from.
C13_NameRoundTrip ==
    DOMAIN metadata \subseteq
        {<<Spell[PairOrder[i].doc_type], Spell[PairOrder[i].lang]>> : i \in 1..Len(PairOrder)}

\* C14: when the pair's file is missing or cannot be parsed the run goes
\* on with an empty prior corpus, so the merge returns the fetched batch
\* itself, counts all of it as added, and the corpus becomes that batch.
C14_MissingFileInitialises ==
    [][\A i \in 1..Len(PairOrder) :
          LET fp == filepath(PairOrder[i])
          IN  (pair = i /\ pair' = i + 1 /\ files[fp].status \in {"missing", "corrupt"})
              => /\ proc' = "running"
                 /\ existing' = <<>>
                 /\ merged' = new_docs'
                 /\ added' = Len(new_docs')
                 /\ CorpusOf(files'[fp]) = new_docs']_vars

\* the first run has merged a two-record batch into its first pair's file,
\* which was missing or unparseable
C14_Witness ==
    /\ run = 1
    /\ pair = 2
    /\ added = 2
    /\ merged = new_docs
    /\ files[filepath(PairOrder[1])] = [status |-> "ok", data |-> new_docs]

\* C15: a record stored in a corpus stays as it is, title and url
\* included, whatever later batches carry under its id.
C15_FirstWriteWins ==
    [][\A fp \in FilePaths :
          LET old == CorpusOf(files[fp])
              new == CorpusOf(files'[fp])
          IN  \A i \in 1..Len(old) :
                  /\ \E j \in 1..Len(new) : new[j] = old[i]
                  /\ \A j \in 1..Len(new) : new[j].id = old[i].id => new[j] = old[i]]_vars

\* a later batch carried the id of a stored record whose title had been
\* sanitised to "USD 5", with another title and url; the stored one stayed
C15_Witness ==
    /\ run = 2
    /\ pair > 1
    /\ \E i \in 1..Len(new_docs), j \in 1..Len(existing) :
          /\ new_docs[i].id = existing[j].id
          /\ new_docs[i].title # existing[j].title
          /\ new_docs[i].url # existing[j].url
          /\ existing[j].title = <<"U", "S", "D", " ", "5">>
          /\ \E k \in 1..Len(merged) : merged[k] = existing[j]
          /\ LET data == CorpusOf(files[filepath(PairOrder[pair - 1])])
             IN  \E k \in 1..Len(data) : data[k] = existing[j]

Blank(m) == strip(m.text) = <<>>

\* the records of the matches whose index is in K, in the order of ms
RECURSIVE Pick(_, _, _)
Pick(ms, K, i) ==
    IF i > Len(ms) THEN <<>>
    ELSE (IF i \in K THEN <<MakeDoc(ms[i])>> ELSE <<>>) \o Pick(ms, K, i + 1)

\* C16, as amended: parse_html keeps the matches in first-seen order and
\* discards a match iff its title is empty after trimming or its id
\* occurred in an earlier match whose title was not empty; the output has
\* at most one record per id and none with an empty title.
C16_ParseKeepsFirstTitled ==
    parse_pc = "done" =>
        LET ms == markup.anchors
            K  == {i \in 1..Len(ms) :
                      ~(\/ Blank(ms[i])
                        \/ \E k \in 1..(i - 1) : ms[k].id = ms[i].id /\ ~Blank(ms[k]))}
        IN  /\ parsed = Pick(ms, K, 1)
            /\ IdUnique(parsed)
            /\ \A j \in 1..Len(parsed) : parsed[j].title # <<>>

\* C16, as stated: a match is discarded iff its title is empty after
\* trimming or its id occurred in any earlier match.
C16_ParseDropsEveryRepeat ==
    parse_pc = "done" =>
        LET ms == markup.anchors
            K  == {i \in 1..Len(ms) :
                      ~(\/ Blank(ms[i])
                        \/ \E k \in 1..(i - 1) : ms[k].id = ms[i].id)}
        IN  parsed = Pick(ms, K, 1)

\* id 11 first with a blank title, then with title "b", then again: the
\* second match is kept, the first and the third are discarded
C16_Witness ==
    /\ parse_pc = "done"
    /\ Len(markup.anchors) = 3
    /\ \A i \in 1..3 : markup.anchors[i].id = "11"
    /\ Blank(markup.anchors[1])
    /\ ~Blank(markup.anchors[2])
    /\ parsed = <<MakeDoc(markup.anchors[2])>>

\* pages with no record and no next-page control
QuietPages == {h \in Pages : parse_html(h) = <<>> /\ ~has_next_page(Form(h))}

\* C17: wherever a request is due, its failure and its being answered by
\* a page with no record and no next-page control end the call with the
\* same batch, and no request follows either.
C17_FailureAsEmptyPage ==
    /\ pc = "start" =>
          /\ ENABLED (InitialFailed /\ pc' = "done" /\ all_docs' = <<>>
                        /\ requests' = requests + 1)
          /\ \A h \in QuietPages :
                ENABLED (InitialOk(h) /\ pc' = "loop" /\ all_docs' = <<>>
                           /\ requests' = requests + 1
                           /\ ~loop_cond(html', page', max_pages'))
    /\ (pc = "loop" /\ ~loop_cond(html, page, max_pages)) =>
          /\ ENABLED (LoopEnd /\ pc' = "done" /\ all_docs' = all_docs
                        /\ requests' = requests)
          /\ ~ENABLED (NoViewstate \/ PostFailed \/ \E h \in Pages : PostOk(h))
    /\ (ENABLED PostFailed) =>
          /\ ENABLED (PostFailed /\ pc' = "done" /\ all_docs' = all_docs
                        /\ requests' = requests + 1)
          /\ \A h \in QuietPages :
                ENABLED (PostOk(h) /\ pc' = "done" /\ all_docs' = all_docs
                           /\ requests' = requests + 1)
    /\ pc = "done" => ~ENABLED (NextPag /\ requests' # requests)

\* a POST failed after two pages had been gathered: the call returned
\* what it had
C17_Witness ==
    /\ exit = "post_failed"
    /\ requests = 3
    /\ all_docs # <<>>
    /\ all_docs = in_order

\* the first request is the GET; every later one is a POST made after a
\* sleep, whose tokens are those of the response just received, a token
\* that response lacks being sent empty
PostFromLastResponse ==
    [][requests' # requests =>
          IF requests = 0
          THEN post_data' = NoPost /\ delays' = delays
          ELSE /\ delays' = delays + 1
               /\ post_data'["__EVENTTARGET"] = NextTarget
               /\ post_data'["__EVENTARGUMENT"] = ""
               /\ \A n \in TokenNames :
                     post_data'[n] = Get(extract_viewstate(html), n, "")]_vars

\* C18: the first request is the GET; every later one is a POST, made
\* after the inter-page sleep, with the fixed __EVENTTARGET, an empty
\* __EVENTARGUMENT and the three state tokens extracted from the
\* response just received.
C18_PostCarriesLastTokens ==
    [][requests' # requests =>
          IF requests = 0
          THEN post_data' = NoPost /\ delays' = delays
          ELSE /\ delays' = delays + 1
               /\ post_data'["__EVENTTARGET"] = NextTarget
               /\ post_data'["__EVENTARGUMENT"] = ""
               /\ \A n \in TokenNames :
                     /\ n \in DOMAIN extract_viewstate(html)
                     /\ post_data'[n] = extract_viewstate(html)[n]]_vars

\* the ids the server's pages are made of
ServerIds == {a.id : a \in Anchors}

\* C19: with a budget that never binds and every request returning, the
\* call ends, whatever the server shows, after at most |S| + 1 POSTs: the
\* budget is never what ends it.
C19_EndsWithoutBudget ==
    /\ <>(pc = "done")
    /\ [](delays <= Cardinality(ServerIds) + 1)
    /\ [](requests <= Cardinality(ServerIds) + 2)
    /\ [](page <= max_pages)
    /\ [](pc = "loop" /\ delays > 0 => Cardinality(seen_ids) >= delays)

\* the longest call: an empty first page, one new id on each of the next
\* |S| pages, then a page without a new id that still shows the control
C19_Witness ==
    /\ pc = "done"
    /\ exit = "stall"
    /\ has_next_page(html)
    /\ seen_ids = ServerIds
    /\ delays = Cardinality(ServerIds) + 1

\* C20: the pairs are taken one at a time in the enumeration order; a
\* step changes a file only if it is the file of the pair being processed
\* and the merge added something, and then writes the merged corpus; a
\* failed fetch or one with no new id leaves every file as it was.
C20_WriteFrame ==
    /\ [][pair' # pair =>
             \/ pair <= Len(PairOrder) /\ pair' = pair + 1
             \/ pair > Len(PairOrder) /\ pair' = 1]_vars
    /\ [][\A fp \in FilePaths :
             files'[fp] # files[fp] =>
                 /\ pair <= Len(PairOrder)
                 /\ fp = filepath(PairOrder[pair])
                 /\ pair' = pair + 1
                 /\ added' > 0
                 /\ files'[fp] = [status |-> "ok", data |-> merged']]_vars
    /\ [][(pair' = pair + 1 /\ added' = 0) => files' = files]_vars

\* the second run fetched records for its first pair that were all
\* stored already: nothing added, the file still what the first run wrote
C20_Witness ==
    /\ run = 2
    /\ pair = 2
    /\ new_docs # <<>>
    /\ added = 0
    /\ files[filepath(PairOrder[1])] = [status |-> "ok", data |-> existing]
    /\ files[filepath(PairOrder[2])].status = "ok"

=============================================================================
